---------------------------- MODULE Spec2Model ----------------------------
(***************************************************************************)
(* A model of the classdock roster store and of its repository             *)
(* synchronizer (RosterSynchronizer.sync_repositories, "reconcile").       *)
(*                                                                         *)
(* The SQLite tables students, assignments and student_assignments are the *)
(* variables of the same names: sets of rows.  Python None and SQL NULL    *)
(* are the string None below for text columns and 0 for timestamps and     *)
(* ids; a timestamp t > 0 is the instant t of the logical clock (what      *)
(* datetime.now() returns during the t-th operation).  A timestamp column  *)
(* round-trips through sqlite3's datetime adapter and                      *)
(* datetime.fromisoformat without loss, so a row carries the instant.      *)
(***************************************************************************)
EXTENDS Integers, Sequences, FiniteSets, TLC

\* ----------------------------------------------------------------- bounds
\* Operations per behaviour: every operation takes one tick of the clock.
MaxClock == 4
\* Rows of the students table.
MaxStudents == 2
\* Length of a discovered_repos list.
MaxDiscovered == 2
MaxRows == 2
MaxImports == 3
MaxFiles == 2

\* ------------------------------------------------------------ value sets
None == "<None>"
NoTime == 0

Emails == {"a@x.edu", "b@x.edu"}
Organizations == {"org1", "org2"}
Usernames == {"alice", "bob"}
AssignmentNames == {"hw1"}

\* Email strings as a caller may write them; the second differs from the first
\* in case and in trailing blanks only.
RawEmails == {"a@x.edu", "A@X.edu ", "b@x.edu"}

\* str.strip() and str.lower().strip() on the strings of RawEmails (and on
\* the stripped ones).
strip(email) == IF email = "A@X.edu " THEN "A@X.edu" ELSE email

lower_strip(email) == IF email \in {"A@X.edu ", "A@X.edu"} THEN "a@x.edu" ELSE email

\* The data rows of a CSV file with the columns email, name, github_username.
CsvRow(email, name, github_username) ==
    [email |-> email, name |-> name, github_username |-> github_username]

CsvRows ==
    {CsvRow("a@x.edu", "Ann", "alice"), CsvRow("A@X.edu ", "Ann", ""),
     CsvRow("b@x.edu", "Bob", "bob"), CsvRow("a@x.edu", "", "alice"),
     CsvRow("", "Eve", "")}

\* What a caller may pass for assignment_name and github_organization: the
\* arguments are plain strings, the empty string included.
NameArgs == AssignmentNames \cup {""}
OrgArgs == Organizations \cup {""}

\* The student_identifier of a discovered triple: a username, None or "".
Identifiers == Usernames \cup {None, ""}

\* A NULL repository_url / repository_name column; the i-th discovered
\* repository has name <<"repo", i>> and url <<"https", i>>.
NoRepo == <<>>

Triple(i, identifier) ==
    [repo_name |-> <<"repo", i>>, repo_url |-> <<"https", i>>, student_identifier |-> identifier]

RECURSIVE SeqsUpTo(_, _)
SeqsUpTo(S, n) ==
    IF n = 0 THEN {<<>>}
    ELSE LET shorter == SeqsUpTo(S, n - 1)
         IN shorter \cup {Append(q, x) : q \in {p \in shorter : Len(p) = n - 1}, x \in S}

\* The discovered_repos lists: (repo_name, repo_url, student_identifier) triples.
DiscoveredLists ==
    {[i \in 1..Len(ids) |-> Triple(i, ids[i])] : ids \in SeqsUpTo(Identifiers, MaxDiscovered)}

\* A test "is not None" in place of truthiness: "" passes it.
IsNotNone(x) == x /= None

\* Python truthiness of an Optional[str]: None and "" are falsy.
Truthy(x) == x /= None /\ x /= ""

VARIABLES
    students,             \* table students
    assignments,          \* table assignments
    student_assignments,  \* table student_assignments
    seq,                  \* sqlite_sequence: last AUTOINCREMENT id per table
    clock,                \* logical time
    ret,                  \* the last call and what it returned
    db_file,              \* the database file: absent, empty or with schema
    calls                 \* the sync_repositories invocations in progress

vars == <<students, assignments, student_assignments, seq, clock, ret, db_file, calls>>

\* ---------------------------------------------------------------- models.py
valid_student_statuses == {"active", "inactive", "dropped"}
valid_types == {"individual", "group"}
valid_assignment_statuses == {"active", "closed", "archived"}
valid_acceptance_statuses == {"pending", "accepted", "completed", "submitted"}

\* Assignment.__post_init__: TRUE when the constructor raises ValueError.
Assignment_post_init_raises(name, github_organization, assignment_type, status) ==
    \/ ~Truthy(name)
    \/ ~Truthy(github_organization)
    \/ assignment_type \notin valid_types
    \/ status \notin valid_assignment_statuses

\* StudentAssignment.from_dict / __post_init__ on a row: TRUE when it raises.
StudentAssignment_from_dict_raises(row) ==
    \/ row.student_id = 0
    \/ row.assignment_id = 0
    \/ row.acceptance_status \notin valid_acceptance_statuses

\* SyncResult(sync_type="repositories", total_repos=n)
SyncResult(n) ==
    [total_repos |-> n, linked_count |-> 0, unlinked_count |-> 0,
     errors |-> <<>>, unlinked_repos |-> <<>>]

add_error(result, error) == [result EXCEPT !.errors = Append(@, error)]

\* An add_linked that does not count.
add_linked_uncounted(result) == result

add_linked(result) == [result EXCEPT !.linked_count = @ + 1]

\* An add_unlinked that puts the url at the front of the list.
add_unlinked_prepend(result, repo_url) ==
    [result EXCEPT !.unlinked_repos = <<repo_url>> \o @, !.unlinked_count = @ + 1]

add_unlinked(result, repo_url) ==
    [result EXCEPT !.unlinked_repos = Append(@, repo_url), !.unlinked_count = @ + 1]

\* --------------------------------------------------------------- manager.py
\* The first row of a result set: SQLite walks the table (or the index, whose
\* equal keys are ordered by rowid) in rowid order.
FirstRow(rows) == CHOOSE r \in rows : \A o \in rows : r.id <= o.id

\* An Optional[row] is the empty set (None) or a singleton.
Optional(rows) == IF rows = {} THEN {} ELSE {FirstRow(rows)}

The(opt) == CHOOSE r \in opt : TRUE

get_assignment_by_name(A, name) ==
    Optional({a \in A : a.name = name})

get_assignment_by_id(A, id) ==
    Optional({a \in A : a.id = id})

get_student_by_github(S, github_username, github_organization) ==
    IF Truthy(github_organization)
    THEN Optional({s \in S : /\ s.github_username = github_username
                             /\ s.github_organization = github_organization})
    ELSE Optional({s \in S : s.github_username = github_username})

\* The rows get_student_assignment's SELECT returns (before from_dict).
get_student_assignment(L, student_id, assignment_id) ==
    Optional({l \in L : l.student_id = student_id /\ l.assignment_id = assignment_id})

\* The INSERT on a table without UNIQUE(student_id, assignment_id).
link_student_to_assignment_no_unique(S, A, L, last_id, student_id, assignment_id, repository_url, repository_name, acceptance_status) ==
    IF \/ ~\E s \in S : s.id = student_id
       \/ ~\E a \in A : a.id = assignment_id
    THEN [raised |-> TRUE, links |-> L, last_id |-> last_id]
    ELSE [raised |-> FALSE,
          links |-> L \cup {[id |-> last_id + 1,
                             student_id |-> student_id,
                             assignment_id |-> assignment_id,
                             repository_url |-> repository_url,
                             repository_name |-> repository_name,
                             acceptance_status |-> acceptance_status,
                             accepted_at |-> NoTime,
                             last_synced_at |-> NoTime]},
          last_id |-> last_id + 1]

\* INSERT INTO student_assignments: the UNIQUE(student_id, assignment_id) and the
\* foreign keys (PRAGMA foreign_keys = ON) make it raise sqlite3.IntegrityError.
link_student_to_assignment(S, A, L, last_id, student_id, assignment_id, repository_url, repository_name, acceptance_status) ==
    IF \/ \E l \in L : l.student_id = student_id /\ l.assignment_id = assignment_id
       \/ ~\E s \in S : s.id = student_id
       \/ ~\E a \in A : a.id = assignment_id
    THEN [raised |-> TRUE, links |-> L, last_id |-> last_id]
    ELSE [raised |-> FALSE,
          links |-> L \cup {[id |-> last_id + 1,
                             student_id |-> student_id,
                             assignment_id |-> assignment_id,
                             repository_url |-> repository_url,
                             repository_name |-> repository_name,
                             acceptance_status |-> acceptance_status,
                             accepted_at |-> NoTime,
                             last_synced_at |-> NoTime]},
          last_id |-> last_id + 1]

\* The UPDATE without its WHERE clause: every row takes the columns.
update_student_assignment_no_where(L, link) ==
    {[link EXCEPT !.id = l.id, !.student_id = l.student_id, !.assignment_id = l.assignment_id] : l \in L}

\* UPDATE student_assignments SET ... WHERE id = ?
update_student_assignment(L, link) ==
    {IF l.id = link.id THEN link ELSE l : l \in L}

\* Student.from_dict(row): the constructor normalizes the email of the object.
Student_from_dict(row) == [row EXCEPT !.email = lower_strip(@)]

\* UPDATE students SET email = ?, github_username = ?, github_organization = ?,
\* status = ? WHERE id = ?: the attributes go to the row as the object holds
\* them; UNIQUE(email, github_organization) compares the stored strings.
update_student(S, student) ==
    IF ~\E s \in S : s.id = student.id
    THEN [raised |-> FALSE, students |-> S, rows_affected |-> 0]
    ELSE IF \E s \in S : /\ s.id /= student.id
                         /\ s.email = student.email
                         /\ s.github_organization = student.github_organization
    THEN [raised |-> TRUE, students |-> S, rows_affected |-> 0]
    ELSE [raised |-> FALSE,
          students |-> {IF s.id = student.id THEN student ELSE s : s \in S},
          rows_affected |-> 1]

\* SELECT * FROM students WHERE [github_organization = ? AND] status = ?
\* (the Student objects as a set: every row has its own id, so the length of
\* the list is the cardinality; the ORDER BY is not modelled).
list_students(S, github_organization, status) ==
    LET rows == IF Truthy(github_organization)
                THEN {s \in S : s.github_organization = github_organization /\ s.status = status}
                ELSE {s \in S : s.status = status}
    IN {Student_from_dict(row) : row \in rows}

\* FROM students s JOIN student_assignments sa ON s.id = sa.student_id
\* WHERE sa.assignment_id = ?: one (student, link) pair per link of the assignment.
get_assignment_students(S, L, assignment_id) ==
    {p \in S \X L : p[2].assignment_id = assignment_id /\ p[2].student_id = p[1].id}

\* get_assignment_students builds StudentAssignment.from_dict for every pair.
get_assignment_students_raises(S, L, assignment_id) ==
    \E p \in get_assignment_students(S, L, assignment_id) : StudentAssignment_from_dict_raises(p[2])


\* ------------------------------------------------------------------ sync.py
\* What the loop of sync_repositories carries from one triple to the next: the
\* links table, its AUTOINCREMENT counter, the SyncResult, and per triple a
\* record of the branch taken, the student resolved and the store round-trips
\* made (execute_query / execute_update calls).
Step(outcome, student_id, queries, updates) ==
    [outcome |-> outcome, student_id |-> student_id, queries |-> queries, updates |-> updates]

missing_identifier(st, item) ==
    [st EXCEPT !.result = add_error(add_unlinked(@, item.repo_url), <<"no student identifier", item.repo_name>>),
               !.trace = Append(@, Step("no_identifier", 0, 0, 0))]

no_roster_entry(st, item) ==
    [st EXCEPT !.result = add_unlinked(@, item.repo_url),
               !.trace = Append(@, Step("no_student", 0, 1, 0))]

\* except Exception as e: result.add_error(f"Error processing {repo_name}: {e}")
except_handler(st, item, student_id, queries, updates) ==
    [st EXCEPT !.result = add_error(@, <<"Error processing", item.repo_name>>),
               !.trace = Append(@, Step("error", student_id, queries, updates))]

\* An update path that forgets result.add_linked().
update_existing_link_uncounted(st, item, student, existing_link, now) ==
    LET link == [existing_link EXCEPT
                    !.repository_url = item.repo_url,
                    !.repository_name = item.repo_name,
                    !.acceptance_status = "accepted",
                    !.accepted_at = IF @ /= NoTime THEN @ ELSE now,
                    !.last_synced_at = now]
    IN [st EXCEPT !.links = {IF l.id = link.id THEN link ELSE l : l \in @},
                  !.trace = Append(@, Step("updated", student.id, 2, 1))]

\* An update that stamps accepted_at anew on every sync.
update_existing_link_restamp(st, item, student, existing_link, now) ==
    LET link == [existing_link EXCEPT
                    !.repository_url = item.repo_url,
                    !.repository_name = item.repo_name,
                    !.acceptance_status = "accepted",
                    !.accepted_at = now,
                    !.last_synced_at = now]
    IN [st EXCEPT !.links = {IF l.id = link.id THEN link ELSE l : l \in @},
                  !.result = [@ EXCEPT !.linked_count = @ + 1],
                  !.trace = Append(@, Step("updated", student.id, 2, 1))]

\* if existing_link: ... update_student_assignment(existing_link); add_linked()
update_existing_link(st, item, student, existing_link, now) ==
    LET link == [existing_link EXCEPT
                    !.repository_url = item.repo_url,
                    !.repository_name = item.repo_name,
                    !.acceptance_status = "accepted",
                    !.accepted_at = IF @ /= NoTime THEN @ ELSE now,
                    !.last_synced_at = now]
    IN [st EXCEPT !.links = update_student_assignment(@, link),
                  !.result = add_linked(@),
                  !.trace = Append(@, Step("updated", student.id, 2, 1))]

\* A create path that skips the follow-up update of last_synced_at.
create_new_link_unsynced(S, A, st, item, student, assignment, now) ==
    LET ins == link_student_to_assignment(S, A, st.links, st.last_id, student.id, assignment.id, item.repo_url, item.repo_name, "accepted")
    IN IF ins.raised
       THEN except_handler(st, item, student.id, 2, 0)
       ELSE [st EXCEPT !.links = ins.links,
                       !.last_id = ins.last_id,
                       !.result = add_linked(@),
                       !.trace = Append(@, Step("created", student.id, 2, 1))]

\* else: link_student_to_assignment(...); new_link = get_student_assignment(...);
\* new_link.last_synced_at = now; update_student_assignment(new_link); add_linked()
create_new_link(S, A, st, item, student, assignment, now) ==
    LET ins == link_student_to_assignment(S, A, st.links, st.last_id, student.id, assignment.id, item.repo_url, item.repo_name, "accepted")
        new_link == get_student_assignment(ins.links, student.id, assignment.id)
    IN IF ins.raised
       THEN except_handler(st, item, student.id, 2, 0)
       ELSE IF new_link = {} \/ StudentAssignment_from_dict_raises(The(new_link))
       THEN except_handler([st EXCEPT !.links = ins.links, !.last_id = ins.last_id], item, student.id, 3, 1)
       ELSE [st EXCEPT !.links = update_student_assignment(ins.links, [The(new_link) EXCEPT !.last_synced_at = now]),
                       !.last_id = ins.last_id,
                       !.result = add_linked(@),
                       !.trace = Append(@, Step("created", student.id, 3, 2))]

\* The body of the for loop, for one triple.
process_repository(S, A, st, item, assignment, github_organization, now) ==
    IF ~Truthy(item.student_identifier)
    THEN missing_identifier(st, item)
    ELSE LET found == get_student_by_github(S, item.student_identifier, github_organization)
         IN IF found = {}
            THEN no_roster_entry(st, item)
            ELSE LET student == The(found)
                     row == get_student_assignment(st.links, student.id, assignment.id)
                 IN IF row = {}
                    THEN create_new_link(S, A, st, item, student, assignment, now)
                    ELSE IF StudentAssignment_from_dict_raises(The(row))
                    THEN except_handler(st, item, student.id, 2, 0)
                    ELSE update_existing_link(st, item, student, The(row), now)

RECURSIVE process_repositories(_, _, _, _, _, _, _, _)
process_repositories(S, A, st, discovered_repos, i, assignment, github_organization, now) ==
    IF i > Len(discovered_repos)
    THEN st
    ELSE process_repositories(S, A, process_repository(S, A, st, discovered_repos[i], assignment, github_organization, now), discovered_repos, i + 1, assignment, github_organization, now)

\* The row add_assignment inserts for Assignment(name=..., github_organization=...).
new_assignment_row(id, name, github_organization, assignment_type, status) ==
    [id |-> id, name |-> name, github_organization |-> github_organization,
     assignment_type |-> assignment_type, status |-> status]

\* Step 1 of sync_repositories: get or create the assignment.  Returns the
\* assignments table, its counter, the assignment, and whether it raised.
get_or_create_assignment(A, last_id, assignment_name, github_organization) ==
    LET existing == get_assignment_by_name(A, assignment_name)
    IN IF existing /= {}
       THEN [raised |-> FALSE, assignments |-> A, last_id |-> last_id, assignment |-> existing]
       ELSE IF Assignment_post_init_raises(assignment_name, github_organization, "individual", "active")
       THEN [raised |-> TRUE, assignments |-> A, last_id |-> last_id, assignment |-> {}]
       ELSE LET A2 == A \cup {new_assignment_row(last_id + 1, assignment_name, github_organization, "individual", "active")}
            IN [raised |-> FALSE, assignments |-> A2, last_id |-> last_id + 1,
                assignment |-> get_assignment_by_id(A2, last_id + 1)]

\* detect_unlinked_students: [] when the assignment is absent, else the active
\* students of list_students that get_assignment_students does not return.
detect_unlinked_students(S, A, L, assignment_name, github_organization) ==
    LET assignment == get_assignment_by_name(A, assignment_name)
    IN IF assignment = {}
       THEN [raised |-> FALSE, students |-> {}]
       ELSE IF get_assignment_students_raises(S, L, The(assignment).id)
       THEN [raised |-> TRUE, students |-> {}]
       ELSE LET all_students == list_students(S, github_organization, "active")
                student_ids_with_repos == {p[1].id : p \in get_assignment_students(S, L, The(assignment).id)}
            IN [raised |-> FALSE,
                students |-> {s \in all_students : s.id \notin student_ids_with_repos}]

\* A Python float that is the quotient of two integers, kept as the fraction.
Rate(num, den) == [num |-> num, den |-> den]

Statistics(total_students, with_repos, without_repos, acceptance_rate) ==
    [total_students |-> total_students, students_with_repos |-> with_repos,
     students_without_repos |-> without_repos, acceptance_rate |-> acceptance_rate]

\* get_sync_statistics
get_sync_statistics(S, A, L, assignment_name, github_organization) ==
    LET assignment == get_assignment_by_name(A, assignment_name)
    IN IF assignment = {}
       THEN [raised |-> FALSE, stats |-> Statistics(0, 0, 0, Rate(0, 1))]
       ELSE IF get_assignment_students_raises(S, L, The(assignment).id)
       THEN [raised |-> TRUE, stats |-> Statistics(0, 0, 0, Rate(0, 1))]
       ELSE LET total_students == Cardinality(list_students(S, github_organization, "active"))
                with_repos == Cardinality(get_assignment_students(S, L, The(assignment).id))
                without_repos == total_students - with_repos
                acceptance_rate == IF total_students > 0
                                   THEN Rate(with_repos * 100, total_students)
                                   ELSE Rate(0, 1)
            IN [raised |-> FALSE,
                stats |-> Statistics(total_students, with_repos, without_repos, acceptance_rate)]

\* detect_unlinked_repositories: the loop over discovered_repos from triple i on.
RECURSIVE detect_unlinked_repositories(_, _, _, _)
detect_unlinked_repositories(S, github_organization, discovered_repos, i) ==
    IF i > Len(discovered_repos)
    THEN <<>>
    ELSE LET item == discovered_repos[i]
             rest == detect_unlinked_repositories(S, github_organization, discovered_repos, i + 1)
         IN IF ~Truthy(item.student_identifier)
            THEN <<<<item.repo_name, "unknown">>>> \o rest
            ELSE IF get_student_by_github(S, item.student_identifier, github_organization) = {}
            THEN <<<<item.repo_name, item.student_identifier>>>> \o rest
            ELSE rest

\* -------------------------------------------------------------- importer.py
\* Student.__post_init__: TRUE when the constructor raises ValueError.
Student_post_init_raises(email, name, github_organization, status) ==
    \/ email = ""
    \/ name = ""
    \/ ~Truthy(github_organization)
    \/ status \notin valid_student_statuses

\* RosterManager.get_student_by_email(email, github_organization)
get_student_by_email(S, email, github_organization) ==
    Optional({s \in S : /\ s.email = lower_strip(email)
                        /\ s.github_organization = github_organization})

\* INSERT INTO students of RosterManager.add_student, with
\* UNIQUE(email, github_organization).
insert_student(S, last_id, email, github_organization, github_username) ==
    IF \E s \in S : s.email = email /\ s.github_organization = github_organization
    THEN [raised |-> TRUE, students |-> S, last_id |-> last_id]
    ELSE [raised |-> FALSE,
          students |-> S \cup {[id |-> last_id + 1, email |-> email,
                                github_username |-> github_username,
                                github_organization |-> github_organization,
                                status |-> "active"]},
          last_id |-> last_id + 1]

\* ImportResult() and its counters; an error is <<kind, row_num>>.
ImportResult ==
    [total_rows |-> 0, successful |-> 0, failed |-> 0, skipped |-> 0, errors |-> <<>>]

import_add_error(result, error) ==
    [result EXCEPT !.errors = Append(@, error), !.failed = @ + 1]

add_success(result) == [result EXCEPT !.successful = @ + 1]

add_skip(result) == [result EXCEPT !.skipped = @ + 1]

\* What the loop of import_from_csv carries from one row to the next.
ImportRowDone(st, result, outcome) ==
    [st EXCEPT !.result = result, !.outcomes = Append(@, outcome)]

\* An import that leaves the duplicates to the INSERT: no lookup before it.
import_row_no_lookup(st, row, row_num, github_organization, skip_duplicates) ==
    LET counted == [st.result EXCEPT !.total_rows = @ + 1]
        email == strip(row.email)
        name == row.name
        github_username == IF row.github_username = "" THEN None ELSE row.github_username
    IN IF email = "" \/ name = ""
       THEN ImportRowDone(st, import_add_error(counted, <<"Missing required fields", row_num>>), "missing")
       ELSE IF Student_post_init_raises(email, name, github_organization, "active")
       THEN ImportRowDone(st, import_add_error(counted, <<"Validation error", row_num>>), "invalid")
       ELSE LET ins == insert_student(st.students, st.last_id, lower_strip(email), github_organization, github_username)
            IN IF ins.raised
               THEN ImportRowDone(st, import_add_error(counted, <<"Unexpected error", row_num>>), "error")
               ELSE ImportRowDone([st EXCEPT !.students = ins.students, !.last_id = ins.last_id],
                                  add_success(counted), "imported")

\* The body of the loop of import_from_csv, for one row.
import_row(st, row, row_num, github_organization, skip_duplicates) ==
    LET counted == [st.result EXCEPT !.total_rows = @ + 1]
        email == strip(row.email)
        name == row.name
        github_username == IF row.github_username = "" THEN None ELSE row.github_username
    IN IF email = "" \/ name = ""
       THEN ImportRowDone(st, import_add_error(counted, <<"Missing required fields", row_num>>), "missing")
       ELSE IF get_student_by_email(st.students, email, github_organization) /= {}
       THEN IF skip_duplicates
            THEN ImportRowDone(st, add_skip(counted), "skipped")
            ELSE ImportRowDone(st, import_add_error(counted, <<"Duplicate student", row_num>>), "duplicate")
       ELSE IF Student_post_init_raises(email, name, github_organization, "active")
       THEN ImportRowDone(st, import_add_error(counted, <<"Validation error", row_num>>), "invalid")
       ELSE LET ins == insert_student(st.students, st.last_id, lower_strip(email), github_organization, github_username)
            IN IF ins.raised
               THEN ImportRowDone(st, import_add_error(counted, <<"Unexpected error", row_num>>), "error")
               ELSE ImportRowDone([st EXCEPT !.students = ins.students, !.last_id = ins.last_id],
                                  add_success(counted), "imported")

RECURSIVE import_rows(_, _, _, _, _)
import_rows(st, rows, i, github_organization, skip_duplicates) ==
    IF i > Len(rows)
    THEN st
    ELSE import_rows(import_row(st, rows[i], i + 1, github_organization, skip_duplicates), rows, i + 1, github_organization, skip_duplicates)

\* ------------------------------------------------------------------ actions
\* The callers that can run sync_repositories side by side, and a caller
\* that is not inside a call.
Callers == {1, 2}
Idle == [pc |-> "idle"]

\* A call that runs alone: time passes; it leaves the file itself and the
\* invocations in progress as they are.
Tick == clock < MaxClock /\ clock' = clock + 1 /\ UNCHANGED <<db_file, calls>>

Called(op) == [op |-> op, raised |-> FALSE]
Raised(op) == [op |-> op, raised |-> TRUE]

Init ==
    /\ students = {}
    /\ assignments = {}
    /\ student_assignments = {}
    /\ seq = [students |-> 0, assignments |-> 0, student_assignments |-> 0]
    /\ clock = 0
    /\ ret = Called("init")
    /\ db_file = "schema"
    /\ calls = [p \in Callers |-> Idle]

\* RosterManager.add_student(Student(email, name, github_organization, github_username))
add_student(email, github_organization, github_username) ==
    /\ Tick
    /\ Cardinality(students) < MaxStudents
    /\ IF \E s \in students : s.email = email /\ s.github_organization = github_organization
       THEN /\ ret' = [op |-> "add_student", raised |-> TRUE,
                        email |-> email, github_organization |-> github_organization]
            /\ UNCHANGED <<students, seq>>
       ELSE /\ students' = students \cup
                   {[id |-> seq.students + 1, email |-> email,
                     github_username |-> github_username,
                     github_organization |-> github_organization,
                     status |-> "active"]}
            /\ seq' = [seq EXCEPT !.students = @ + 1]
            /\ ret' = Called("add_student")
    /\ UNCHANGED <<assignments, student_assignments>>

\* An add_assignment on a table whose name is unique per organization only.
add_assignment_unique_per_org(name, github_organization) ==
    /\ Tick
    /\ IF \E a \in assignments : a.name = name /\ a.github_organization = github_organization
       THEN /\ ret' = [op |-> "add_assignment", raised |-> TRUE,
                        name |-> name, github_organization |-> github_organization]
            /\ UNCHANGED <<assignments, seq>>
       ELSE /\ assignments' = assignments \cup
                   {new_assignment_row(seq.assignments + 1, name, github_organization, "individual", "active")}
            /\ seq' = [seq EXCEPT !.assignments = @ + 1]
            /\ ret' = Called("add_assignment")
    /\ UNCHANGED <<students, student_assignments>>

\* RosterManager.add_assignment(Assignment(name, github_organization))
add_assignment(name, github_organization) ==
    /\ Tick
    /\ IF \E a \in assignments : a.name = name
       THEN /\ ret' = [op |-> "add_assignment", raised |-> TRUE,
                        name |-> name, github_organization |-> github_organization]
            /\ UNCHANGED <<assignments, seq>>
       ELSE /\ assignments' = assignments \cup
                   {new_assignment_row(seq.assignments + 1, name, github_organization, "individual", "active")}
            /\ seq' = [seq EXCEPT !.assignments = @ + 1]
            /\ ret' = Called("add_assignment")
    /\ UNCHANGED <<students, student_assignments>>

\* RosterManager.link_student_to_assignment(student_id, assignment_id,
\* acceptance_status=...): the status is stored as given, unvalidated.
link_student(student_id, assignment_id, acceptance_status) ==
    /\ Tick
    /\ LET ins == link_student_to_assignment(students, assignments, student_assignments, seq.student_assignments, student_id, assignment_id, NoRepo, NoRepo, acceptance_status)
       IN /\ student_assignments' = ins.links
          /\ seq' = [seq EXCEPT !.student_assignments = ins.last_id]
          /\ ret' = [op |-> "link_student_to_assignment", raised |-> ins.raised,
                     student_id |-> student_id, assignment_id |-> assignment_id]
    /\ UNCHANGED <<students, assignments>>

\* A caller marks a link completed, as test_update_student_assignment does:
\* link.acceptance_status = 'completed'; link.accepted_at = datetime.now();
\* RosterManager.update_student_assignment(link)
complete_link(link) ==
    /\ Tick
    /\ ~StudentAssignment_from_dict_raises(link)
    /\ student_assignments' = update_student_assignment(student_assignments,
            [link EXCEPT !.acceptance_status = "completed", !.accepted_at = clock + 1])
    /\ ret' = Called("update_student_assignment")
    /\ UNCHANGED <<students, assignments, seq>>

\* RosterSynchronizer.sync_repositories(assignment_name, github_organization, discovered_repos)
sync_repositories(assignment_name, github_organization, discovered_repos) ==
    /\ Tick
    /\ LET args == [assignment_name |-> assignment_name,
                    github_organization |-> github_organization,
                    discovered_repos |-> discovered_repos]
           step1 == get_or_create_assignment(assignments, seq.assignments, assignment_name, github_organization)
           st0 == [links |-> student_assignments, last_id |-> seq.student_assignments,
                   result |-> SyncResult(Len(discovered_repos)), trace |-> <<>>]
           st == process_repositories(students, step1.assignments, st0, discovered_repos, 1, The(step1.assignment), github_organization, clock + 1)
           repeat == ret.op = "sync_repositories" /\ ~ret.raised /\ ret.args = args
       IN IF step1.raised
          THEN /\ ret' = [op |-> "sync_repositories", raised |-> TRUE,
                           assignment_name |-> assignment_name,
                           github_organization |-> github_organization]
               /\ UNCHANGED <<assignments, student_assignments, seq>>
          ELSE /\ assignments' = step1.assignments
               /\ student_assignments' = st.links
               /\ seq' = [seq EXCEPT !.assignments = step1.last_id,
                                     !.student_assignments = st.last_id]
               /\ ret' = [op |-> "sync_repositories", raised |-> FALSE, args |-> args,
                          assignment_id |-> The(step1.assignment).id,
                          created |-> (step1.last_id /= seq.assignments),
                          result |-> st.result, trace |-> st.trace, repeat |-> repeat]
    /\ UNCHANGED students

Next ==
    \/ \E e \in Emails, o \in Organizations, g \in Usernames : add_student(e, o, g)
    \/ \E n \in AssignmentNames, o \in Organizations : add_assignment(n, o)
    \/ \E s \in students, a \in assignments, st \in {"pending", "bogus"} : link_student(s.id, a.id, st)
    \/ \E l \in student_assignments : complete_link(l)
    \/ \E n \in NameArgs, o \in OrgArgs, d \in DiscoveredLists : sync_repositories(n, o, d)

Spec == Init /\ [][Next]_vars

\* ------------------------------------------------- the roster operations
\* A caller reads a student (Student.from_dict normalizes the email of the
\* object), assigns email, github_organization and status, and calls
\* RosterManager.update_student(student).
edit_student(row, email, github_organization, status) ==
    /\ Tick
    /\ LET student == [row EXCEPT !.email = email,
                                  !.github_organization = github_organization,
                                  !.status = status]
           upd == update_student(students, student)
       IN /\ students' = upd.students
          /\ ret' = [op |-> "update_student", raised |-> upd.raised,
                     student |-> student, rows_affected |-> upd.rows_affected]
    /\ UNCHANGED <<assignments, student_assignments, seq>>

\* A delete_student on a connection without PRAGMA foreign_keys = ON: the
\* links of the student stay.
delete_student_no_cascade(student_id) ==
    /\ Tick
    /\ students' = {s \in students : s.id /= student_id}
    /\ ret' = [op |-> "delete_student", raised |-> FALSE, student_id |-> student_id,
               rows_affected |-> Cardinality({s \in students : s.id = student_id}),
               cascaded |-> 0]
    /\ UNCHANGED <<assignments, student_assignments, seq>>

\* RosterManager.delete_student(student_id): DELETE FROM students WHERE id = ?;
\* FOREIGN KEY (student_id) ... ON DELETE CASCADE removes the student's links.
delete_student(student_id) ==
    /\ Tick
    /\ students' = {s \in students : s.id /= student_id}
    /\ student_assignments' = {l \in student_assignments : l.student_id /= student_id}
    /\ ret' = [op |-> "delete_student", raised |-> FALSE, student_id |-> student_id,
               rows_affected |-> Cardinality({s \in students : s.id = student_id}),
               cascaded |-> Cardinality({l \in student_assignments : l.student_id = student_id})]
    /\ UNCHANGED <<assignments, seq>>

\* RosterManager.delete_assignment(assignment_id), with the same cascade.
delete_assignment(assignment_id) ==
    /\ Tick
    /\ assignments' = {a \in assignments : a.id /= assignment_id}
    /\ student_assignments' = {l \in student_assignments : l.assignment_id /= assignment_id}
    /\ ret' = [op |-> "delete_assignment", raised |-> FALSE, assignment_id |-> assignment_id,
               rows_affected |-> Cardinality({a \in assignments : a.id = assignment_id}),
               cascaded |-> Cardinality({l \in student_assignments : l.assignment_id = assignment_id})]
    /\ UNCHANGED <<students, seq>>

RosterNext ==
    \/ \E e \in RawEmails, o \in Organizations, g \in Usernames : add_student(lower_strip(e), o, g)
    \/ \E s \in students, e \in RawEmails, o \in Organizations, st \in valid_student_statuses : edit_student(s, e, o, st)
    \/ \E id \in 1..seq.students : delete_student(id)
    \/ \E n \in AssignmentNames, o \in Organizations : add_assignment(n, o)
    \/ \E id \in 1..seq.assignments : delete_assignment(id)
    \/ \E sid \in 1..seq.students, aid \in 1..seq.assignments, st \in {"pending", "bogus"} : link_student(sid, aid, st)
    \/ \E l \in student_assignments : complete_link(l)
    \/ \E n \in NameArgs, o \in OrgArgs, d \in DiscoveredLists : sync_repositories(n, o, d)

\* The store under the manager's operations and reconcile.
RosterSpec == Init /\ [][RosterNext]_vars

\* ------------------------------------------------------------ the reports
\* RosterSynchronizer.detect_unlinked_students(assignment_name, github_organization)
unlinked_students(assignment_name, github_organization) ==
    /\ Tick
    /\ LET r == detect_unlinked_students(students, assignments, student_assignments, assignment_name, github_organization)
       IN ret' = [op |-> "detect_unlinked_students", raised |-> r.raised,
                  assignment_name |-> assignment_name,
                  github_organization |-> github_organization,
                  students |-> r.students]
    /\ UNCHANGED <<students, assignments, student_assignments, seq>>

\* RosterSynchronizer.get_sync_statistics(assignment_name, github_organization)
sync_statistics(assignment_name, github_organization) ==
    /\ Tick
    /\ LET r == get_sync_statistics(students, assignments, student_assignments, assignment_name, github_organization)
       IN ret' = [op |-> "get_sync_statistics", raised |-> r.raised,
                  assignment_name |-> assignment_name,
                  github_organization |-> github_organization,
                  stats |-> r.stats]
    /\ UNCHANGED <<students, assignments, student_assignments, seq>>

\* RosterSynchronizer.detect_unlinked_repositories(assignment_name,
\* github_organization, discovered_repos)
unlinked_repositories(assignment_name, github_organization, discovered_repos) ==
    /\ Tick
    /\ ret' = [op |-> "detect_unlinked_repositories", raised |-> FALSE,
               assignment_name |-> assignment_name,
               github_organization |-> github_organization,
               discovered_repos |-> discovered_repos,
               unlinked_repos |-> detect_unlinked_repositories(students, github_organization, discovered_repos, 1)]
    /\ UNCHANGED <<students, assignments, student_assignments, seq>>

ReportNext ==
    \/ \E e \in RawEmails, o \in Organizations, g \in Usernames : add_student(lower_strip(e), o, g)
    \/ \E s \in students, e \in RawEmails, o \in Organizations, st \in valid_student_statuses : edit_student(s, e, o, st)
    \/ \E n \in AssignmentNames, o \in Organizations : add_assignment(n, o)
    \/ \E sid \in 1..seq.students, aid \in 1..seq.assignments, st \in {"pending", "bogus"} : link_student(sid, aid, st)
    \/ \E n \in NameArgs, o \in OrgArgs : unlinked_students(n, o)
    \/ \E n \in NameArgs, o \in OrgArgs : sync_statistics(n, o)
    \/ \E n \in NameArgs, o \in OrgArgs, d \in DiscoveredLists : unlinked_repositories(n, o, d)

\* The read-side reports over the stores the manager's operations build.
ReportSpec == Init /\ [][ReportNext]_vars


\* ------------------------------------------------------------------ imports
CsvFiles == SeqsUpTo(CsvRows, MaxRows)

\* The organizations of the imports of the same rows that ran just before
\* this one, oldest first.
ImportRun(rows) ==
    IF ret.op = "import_from_csv" /\ ret.rows = rows
    THEN Append(ret.run, ret.github_organization)
    ELSE <<>>

\* RosterImporter.import_from_csv(file_path, github_organization, skip_duplicates)
import_from_csv(rows, github_organization, skip_duplicates) ==
    LET start == [students |-> students, last_id |-> seq.students,
                  result |-> ImportResult, outcomes |-> <<>>]
        done == IF rows = <<>>
                THEN [start EXCEPT !.result = import_add_error(@, <<"Validation failed", 0>>)]
                ELSE import_rows(start, rows, 1, github_organization, skip_duplicates)
    IN /\ Tick
       /\ clock < MaxImports
       /\ students' = done.students
       /\ seq' = [seq EXCEPT !.students = done.last_id]
       /\ ret' = [op |-> "import_from_csv", raised |-> FALSE, rows |-> rows,
                  github_organization |-> github_organization,
                  skip_duplicates |-> skip_duplicates,
                  result |-> done.result, outcomes |-> done.outcomes,
                  run |-> ImportRun(rows)]
       /\ UNCHANGED <<assignments, student_assignments>>

ImportNext ==
    \E rows \in CsvFiles, o \in OrgArgs, skip_duplicates \in BOOLEAN :
        import_from_csv(rows, o, skip_duplicates)

ImportSpec == Init /\ [][ImportNext]_vars


\* ------------------------------------------------------------- CSV headers
\* RosterImporter.REQUIRED_COLUMNS
REQUIRED_COLUMNS == {"email", "name"}

\* The header lines of the files: the expected one, a Google Forms export,
\* mixed-case names, and the expected one with a renamed optional column.
ExpectedHeader == <<"email", "name", "github_username">>
GoogleFormsHeader == <<"Email Address", "Enter your name", "Enter your GitHub user name">>
MixedCaseHeader == <<"EMAIL", "Name", "GitHub Username">>
Headers ==
    {ExpectedHeader, GoogleFormsHeader, MixedCaseHeader,
     <<"email", "name", "GitHub Username">>}

\* The data lines of the files, one value per column.
CsvLines == {<<"a@x.edu", "Ann", "alice">>, <<"b@x.edu", "Bob", "bob">>, <<"a@x.edu", "", "alice">>}

\* csv.DictReader row .get(key, ''): the value under the column named key.
row_get(fieldnames, line, key) ==
    IF \E i \in 1..Len(fieldnames) : fieldnames[i] = key
    THEN line[CHOOSE i \in 1..Len(fieldnames) : fieldnames[i] = key]
    ELSE ""

\* The rows csv.DictReader yields, as import_from_csv reads them.
DictReader(fieldnames, lines) ==
    [i \in 1..Len(lines) |->
        CsvRow(row_get(fieldnames, lines[i], "email"),
               row_get(fieldnames, lines[i], "name"),
               row_get(fieldnames, lines[i], "github_username"))]

\* RosterImporter.validate_csv_format: "" when valid, else the message.
validate_csv_format(fieldnames, lines) ==
    IF REQUIRED_COLUMNS \ {fieldnames[i] : i \in 1..Len(fieldnames)} /= {}
    THEN "Missing required columns"
    ELSE IF lines = <<>> THEN "CSV file has no data rows" ELSE ""

\* RosterImporter.import_from_csv on a file given by its header and lines.
import_csv_file(fieldnames, lines, github_organization, skip_duplicates) ==
    LET start == [students |-> students, last_id |-> seq.students,
                  result |-> ImportResult, outcomes |-> <<>>]
        error_msg == validate_csv_format(fieldnames, lines)
        done == IF error_msg /= ""
                THEN [start EXCEPT !.result = import_add_error(@, <<"Validation failed", error_msg>>)]
                ELSE import_rows(start, DictReader(fieldnames, lines), 1, github_organization, skip_duplicates)
    IN /\ Tick
       /\ clock < MaxFiles
       /\ students' = done.students
       /\ seq' = [seq EXCEPT !.students = done.last_id]
       /\ ret' = [op |-> "import_csv_file", raised |-> FALSE,
                  fieldnames |-> fieldnames, lines |-> lines,
                  github_organization |-> github_organization,
                  skip_duplicates |-> skip_duplicates,
                  result |-> done.result, outcomes |-> done.outcomes]
       /\ UNCHANGED <<assignments, student_assignments>>

HeaderNext ==
    \E fieldnames \in Headers, lines \in SeqsUpTo(CsvLines, MaxRows), o \in OrgArgs, skip_duplicates \in BOOLEAN :
        import_csv_file(fieldnames, lines, o, skip_duplicates)

HeaderSpec == Init /\ [][HeaderNext]_vars


\* ------------------------------------------------- two assignment names
\* The reconcile of Spec on a store that holds more than one assignment; the
\* students are those of one organization.
FrameNames == {"hw1", "hw2"}

FrameNext ==
    \/ \E e \in Emails, g \in Usernames : add_student(e, "org1", g)
    \/ \E n \in FrameNames, o \in Organizations : add_assignment(n, o)
    \/ \E s \in students, a \in assignments : link_student(s.id, a.id, "pending")
    \/ \E n \in FrameNames \cup {""}, o \in OrgArgs, d \in DiscoveredLists : sync_repositories(n, o, d)

FrameSpec == Init /\ [][FrameNext]_vars


\* ------------------------------------------------------ the database file
\* The states of the file at db_path: no file, a file without tables (zero
\* bytes), a file with the schema.
FileStates == {"absent", "empty", "schema"}

\* DatabaseManager.database_exists
database_exists(file) == file /= "absent"

\* sqlite3.connect in get_connection creates the file when there is none.
get_connection(file) == IF file = "absent" THEN "empty" ELSE file

\* DatabaseManager.initialize_database: CREATE TABLE IF NOT EXISTS ... on a
\* connection.
create_tables(file) == "schema"

\* RosterService.initialize_database: the file after it and what it returns.
service_initialize(file) ==
    IF database_exists(file)
    THEN [file |-> file, returned |-> TRUE]
    ELSE [file |-> create_tables(get_connection(file)), returned |-> TRUE]

\* The store before any initialization: no file.
DbInit ==
    /\ students = {}
    /\ assignments = {}
    /\ student_assignments = {}
    /\ seq = [students |-> 0, assignments |-> 0, student_assignments |-> 0]
    /\ clock = 0
    /\ ret = Called("init")
    /\ db_file = "absent"
    /\ calls = [p \in Callers |-> Idle]

\* RosterService.initialize_database()
RosterService_initialize_database ==
    /\ clock < MaxClock
    /\ clock' = clock + 1
    /\ UNCHANGED calls
    /\ db_file' = service_initialize(db_file).file
    /\ ret' = [op |-> "RosterService.initialize_database", raised |-> FALSE,
               returned |-> service_initialize(db_file).returned, before |-> db_file]
    /\ UNCHANGED <<students, assignments, student_assignments, seq>>

\* DatabaseManager.initialize_database()
DatabaseManager_initialize_database ==
    /\ clock < MaxClock
    /\ clock' = clock + 1
    /\ UNCHANGED calls
    /\ db_file' = create_tables(get_connection(db_file))
    /\ ret' = [op |-> "DatabaseManager.initialize_database", raised |-> FALSE,
               returned |-> TRUE, before |-> db_file]
    /\ UNCHANGED <<students, assignments, student_assignments, seq>>

\* RosterManager.add_student on the file as it is: without the tables the
\* INSERT raises sqlite3.OperationalError, after the connection made the file.
store_add_student(email, github_organization, github_username) ==
    IF db_file = "schema"
    THEN add_student(email, github_organization, github_username)
    ELSE /\ clock < MaxClock
         /\ clock' = clock + 1
         /\ UNCHANGED calls
         /\ db_file' = get_connection(db_file)
         /\ ret' = [op |-> "add_student", raised |-> TRUE, email |-> email,
                    github_organization |-> github_organization]
         /\ UNCHANGED <<students, assignments, student_assignments, seq>>

\* The file is removed: the tables and their rows go with it.
remove_file ==
    /\ clock < MaxClock
    /\ clock' = clock + 1
    /\ UNCHANGED calls
    /\ db_file /= "absent"
    /\ db_file' = "absent"
    /\ students' = {}
    /\ assignments' = {}
    /\ student_assignments' = {}
    /\ seq' = [students |-> 0, assignments |-> 0, student_assignments |-> 0]
    /\ ret' = Called("remove_file")

DatabaseNext ==
    \/ RosterService_initialize_database
    \/ DatabaseManager_initialize_database
    \/ \E e \in Emails, o \in Organizations, g \in Usernames : store_add_student(e, o, g)
    \/ remove_file

DatabaseSpec == DbInit /\ [][DatabaseNext]_vars


\* ------------------------------------------- interleaved sync_repositories
\* Two callers run sync_repositories(ConcurrentName, ConcurrentOrg, D) on one
\* store.  Every manager call is one execute_query / execute_update: its own
\* connection, committed before the next one starts; a step below is one
\* such round trip together with the Python code up to the next one.
ConcurrentName == "hw1"
ConcurrentOrg == "org1"

\* Discovered lists that all claim the same identifier first.
ConcurrentLists ==
    {d \in DiscoveredLists : Len(d) >= 1 /\ d[1].student_identifier = "alice"}

\* INSERT INTO assignments on a table without UNIQUE(name).
insert_assignment_no_unique(A, last_id, name, github_organization) ==
    [raised |-> FALSE,
     assignments |-> A \cup {new_assignment_row(last_id + 1, name, github_organization, "individual", "active")},
     last_id |-> last_id + 1]

\* INSERT INTO assignments of RosterManager.add_assignment: name is UNIQUE.
insert_assignment(A, last_id, name, github_organization) ==
    IF \E a \in A : a.name = name
    THEN [raised |-> TRUE, assignments |-> A, last_id |-> last_id]
    ELSE [raised |-> FALSE,
          assignments |-> A \cup {new_assignment_row(last_id + 1, name, github_organization, "individual", "active")},
          last_id |-> last_id + 1]

\* The loop of sync_repositories from triple i on, up to its next round
\* trip: triples without identifier are recorded on the way.
RECURSIVE next_lookup(_)
next_lookup(c) ==
    IF c.i > Len(c.discovered_repos)
    THEN [c EXCEPT !.pc = "returned"]
    ELSE LET item == c.discovered_repos[c.i]
         IN IF Truthy(item.student_identifier)
            THEN [c EXCEPT !.pc = "get_student_by_github"]
            ELSE next_lookup([c EXCEPT
                    !.result = add_error(add_unlinked(@, item.repo_url), <<"no student identifier", item.repo_name>>),
                    !.i = @ + 1])

\* The triple is finished with this result: on to the next one.
next_triple(c, result) == next_lookup([c EXCEPT !.result = result, !.i = @ + 1])

Item(c) == c.discovered_repos[c.i]

At(p, pc) == calls[p].pc = pc

\* A caller enters sync_repositories.
begin_sync(p, discovered_repos) ==
    /\ At(p, "idle")
    /\ calls' = [calls EXCEPT ![p] =
                    [pc |-> "get_assignment_by_name", discovered_repos |-> discovered_repos,
                     i |-> 1, assignment_id |-> 0, student_id |-> 0, link |-> {},
                     result |-> SyncResult(Len(discovered_repos))]]
    /\ UNCHANGED <<students, assignments, student_assignments, seq, clock, ret, db_file>>

\* assignment = self.roster.get_assignment_by_name(assignment_name)
call_get_assignment_by_name(p) ==
    /\ At(p, "get_assignment_by_name")
    /\ LET assignment == get_assignment_by_name(assignments, ConcurrentName)
       IN calls' = [calls EXCEPT ![p] =
                       IF assignment = {}
                       THEN [@ EXCEPT !.pc = "add_assignment"]
                       ELSE next_lookup([@ EXCEPT !.assignment_id = The(assignment).id])]
    /\ UNCHANGED <<students, assignments, student_assignments, seq, clock, ret, db_file>>

\* assignment_id = self.roster.add_assignment(Assignment(...)): outside the
\* try block, so the IntegrityError ends the call.
call_add_assignment(p) ==
    /\ At(p, "add_assignment")
    /\ LET ins == insert_assignment(assignments, seq.assignments, ConcurrentName, ConcurrentOrg)
       IN /\ assignments' = ins.assignments
          /\ seq' = [seq EXCEPT !.assignments = ins.last_id]
          /\ calls' = [calls EXCEPT ![p] =
                          IF ins.raised
                          THEN [@ EXCEPT !.pc = "raised"]
                          ELSE [@ EXCEPT !.pc = "get_assignment_by_id", !.assignment_id = ins.last_id]]
    /\ UNCHANGED <<students, student_assignments, clock, ret, db_file>>

\* assignment = self.roster.get_assignment_by_id(assignment_id)
call_get_assignment_by_id(p) ==
    /\ At(p, "get_assignment_by_id")
    /\ calls' = [calls EXCEPT ![p] =
                    IF get_assignment_by_id(assignments, @.assignment_id) = {}
                    THEN [@ EXCEPT !.pc = "raised"]
                    ELSE next_lookup(@)]
    /\ UNCHANGED <<students, assignments, student_assignments, seq, clock, ret, db_file>>

\* student = self.roster.get_student_by_github(student_identifier, github_organization)
call_get_student_by_github(p) ==
    /\ At(p, "get_student_by_github")
    /\ LET c == calls[p]
           found == get_student_by_github(students, Item(c).student_identifier, ConcurrentOrg)
       IN calls' = [calls EXCEPT ![p] =
                       IF found = {}
                       THEN next_triple(c, add_unlinked(c.result, Item(c).repo_url))
                       ELSE [c EXCEPT !.pc = "get_student_assignment", !.student_id = The(found).id]]
    /\ UNCHANGED <<students, assignments, student_assignments, seq, clock, ret, db_file>>

\* existing_link = self.roster.get_student_assignment(student.id, assignment.id)
\* and, on a hit, the assignments to the object's attributes.
call_get_student_assignment(p) ==
    /\ At(p, "get_student_assignment")
    /\ LET c == calls[p]
           row == get_student_assignment(student_assignments, c.student_id, c.assignment_id)
       IN calls' = [calls EXCEPT ![p] =
                       IF row = {}
                       THEN [c EXCEPT !.pc = "link_student_to_assignment"]
                       ELSE IF StudentAssignment_from_dict_raises(The(row))
                       THEN next_triple(c, add_error(c.result, <<"Error processing", Item(c).repo_name>>))
                       ELSE [c EXCEPT !.pc = "update_existing_link",
                                      !.link = {[The(row) EXCEPT
                                                   !.repository_url = Item(c).repo_url,
                                                   !.repository_name = Item(c).repo_name,
                                                   !.acceptance_status = "accepted",
                                                   !.accepted_at = IF @ /= NoTime THEN @ ELSE clock + 1,
                                                   !.last_synced_at = clock + 1]}]]
    /\ UNCHANGED <<students, assignments, student_assignments, seq, clock, ret, db_file>>

\* self.roster.update_student_assignment(existing_link); result.add_linked()
call_update_existing_link(p) ==
    /\ At(p, "update_existing_link")
    /\ LET c == calls[p]
       IN /\ student_assignments' = update_student_assignment(student_assignments, The(c.link))
          /\ calls' = [calls EXCEPT ![p] = next_triple([c EXCEPT !.link = {}], add_linked(c.result))]
    /\ UNCHANGED <<students, assignments, seq, clock, ret, db_file>>

\* link_id = self.roster.link_student_to_assignment(..., acceptance_status="accepted"):
\* inside the try block, so the IntegrityError becomes an error message.
call_link_student_to_assignment(p) ==
    /\ At(p, "link_student_to_assignment")
    /\ LET c == calls[p]
           ins == link_student_to_assignment(students, assignments, student_assignments, seq.student_assignments, c.student_id, c.assignment_id, Item(c).repo_url, Item(c).repo_name, "accepted")
       IN /\ student_assignments' = ins.links
          /\ seq' = [seq EXCEPT !.student_assignments = ins.last_id]
          /\ calls' = [calls EXCEPT ![p] =
                          IF ins.raised
                          THEN next_triple(c, add_error(c.result, <<"Error processing", Item(c).repo_name>>))
                          ELSE [c EXCEPT !.pc = "get_new_link"]]
    /\ UNCHANGED <<students, assignments, clock, ret, db_file>>

\* new_link = self.roster.get_student_assignment(student.id, assignment.id);
\* new_link.last_synced_at = datetime.now()
call_get_new_link(p) ==
    /\ At(p, "get_new_link")
    /\ LET c == calls[p]
           row == get_student_assignment(student_assignments, c.student_id, c.assignment_id)
       IN calls' = [calls EXCEPT ![p] =
                       IF row = {} \/ StudentAssignment_from_dict_raises(The(row))
                       THEN next_triple(c, add_error(c.result, <<"Error processing", Item(c).repo_name>>))
                       ELSE [c EXCEPT !.pc = "update_new_link",
                                      !.link = {[The(row) EXCEPT !.last_synced_at = clock + 1]}]]
    /\ UNCHANGED <<students, assignments, student_assignments, seq, clock, ret, db_file>>

\* self.roster.update_student_assignment(new_link); result.add_linked()
call_update_new_link(p) ==
    /\ At(p, "update_new_link")
    /\ LET c == calls[p]
       IN /\ student_assignments' = update_student_assignment(student_assignments, The(c.link))
          /\ calls' = [calls EXCEPT ![p] = next_triple([c EXCEPT !.link = {}], add_linked(c.result))]
    /\ UNCHANGED <<students, assignments, seq, clock, ret, db_file>>

\* The roster is filled while no call is in progress.
enroll(email, github_username) ==
    /\ \A p \in Callers : At(p, "idle")
    /\ add_student(email, ConcurrentOrg, github_username)

ConcurrentNext ==
    \/ \E e \in Emails, g \in Usernames : enroll(e, g)
    \/ \E p \in Callers, d \in ConcurrentLists : begin_sync(p, d)
    \/ \E p \in Callers : call_get_assignment_by_name(p)
    \/ \E p \in Callers : call_add_assignment(p)
    \/ \E p \in Callers : call_get_assignment_by_id(p)
    \/ \E p \in Callers : call_get_student_by_github(p)
    \/ \E p \in Callers : call_get_student_assignment(p)
    \/ \E p \in Callers : call_update_existing_link(p)
    \/ \E p \in Callers : call_link_student_to_assignment(p)
    \/ \E p \in Callers : call_get_new_link(p)
    \/ \E p \in Callers : call_update_new_link(p)

ConcurrentSpec == Init /\ [][ConcurrentNext]_vars

\* ------------------------------------------------------------------- claims
SyncCalled == ret.op = "sync_repositories"
SyncReturned == SyncCalled /\ ~ret.raised

\* A step that is a second sync_repositories call with the arguments of the
\* call right before it, both having returned.
RepeatedSync ==
    /\ SyncReturned
    /\ SyncReturned'
    /\ ret'.args = ret.args

Range(f) == {f[i] : i \in DOMAIN f}

Occurrences(f, x) == Cardinality({i \in DOMAIN f : f[i] = x})

\* The link row of a (student, assignment) pair, as a set.
LinkOf(L, student_id, assignment_id) ==
    {l \in L : l.student_id = student_id /\ l.assignment_id = assignment_id}

OneRowPerPair(L) ==
    \A l1, l2 \in L :
        (l1.student_id = l2.student_id /\ l1.assignment_id = l2.assignment_id) => l1 = l2

\* C1: a second reconcile with the identical assignment name, organization and
\* discovered list, right after the first, returns the same linked_count,
\* creates no link (it only updates) and leaves one row per (student,
\* assignment) pair.
C1_RepeatSameLinkedCount ==
    [][RepeatedSync =>
        /\ ret'.result.linked_count = ret.result.linked_count
        /\ \A i \in DOMAIN ret'.trace : ret'.trace[i].outcome /= "created"
        /\ Cardinality(student_assignments') = Cardinality(student_assignments)
        /\ OneRowPerPair(student_assignments')]_vars

C1_Witness ==
    /\ SyncReturned
    /\ ret.repeat
    /\ ret.result.linked_count >= 1
    /\ \E i \in DOMAIN ret.trace : ret.trace[i].outcome = "updated"

\* C2: after a second reconcile with identical input every link has the
\* repository_url, repository_name and acceptance_status it had after the
\* first, and accepted_at and last_synced_at are each set exactly when they
\* were set after the first.
C2_RepeatSameLinkState ==
    [][RepeatedSync =>
        \A l2 \in student_assignments' :
            \E l1 \in student_assignments :
                /\ l1.id = l2.id
                /\ l1.repository_url = l2.repository_url
                /\ l1.repository_name = l2.repository_name
                /\ l1.acceptance_status = l2.acceptance_status
                /\ (l1.accepted_at = NoTime) <=> (l2.accepted_at = NoTime)
                /\ (l1.last_synced_at = NoTime) <=> (l2.last_synced_at = NoTime)]_vars

\* The error messages of the last call that name repo_name.
ErrorMessages(repo_name) ==
    {i \in DOMAIN ret.result.errors : ret.result.errors[i][2] = repo_name}

\* C3: a triple whose processing raises is counted unlinked (unlinked_count
\* incremented, its repo_url in unlinked_repos), adds exactly one error message
\* naming its repo_name, and every later triple is still processed.
C3_ErrorCountedUnlinked ==
    SyncReturned =>
        LET D == ret.args.discovered_repos
            unlinked == {i \in DOMAIN ret.trace :
                            ret.trace[i].outcome \in {"no_identifier", "no_student", "error"}}
        IN /\ Len(ret.trace) = Len(D)
           /\ ret.result.unlinked_count = Cardinality(unlinked)
           /\ \A i \in DOMAIN ret.trace :
                ret.trace[i].outcome = "error" =>
                    /\ D[i].repo_url \in Range(ret.result.unlinked_repos)
                    /\ Cardinality(ErrorMessages(D[i].repo_name)) = 1

\* C4: with the store reachable, reconcile returns a SyncResult for every
\* assignment name, organization and discovered list: no call raises.
C4_AlwaysReturns ==
    SyncCalled => ~ret.raised

\* C5: every student reconcile links or updates has the triple's identifier as
\* github username and the organization argument as organization.
C5_OrganizationScoped ==
    SyncReturned =>
        \A i \in DOMAIN ret.trace :
            ret.trace[i].outcome \in {"created", "updated"} =>
                \E s \in students :
                    /\ s.id = ret.trace[i].student_id
                    /\ s.github_username = ret.args.discovered_repos[i].student_identifier
                    /\ s.github_organization = ret.args.github_organization

\* C6: reconcile resolves the assignment by name only: with no assignment of
\* that name the call adds exactly one row, bound to the organization argument
\* with type 'individual' and status 'active'; with one existing (in any
\* organization) the assignments table is unchanged.  After the call exactly
\* one assignment has that name.
C6_GetOrCreateAssignment ==
    [][SyncCalled' /\ clock' /= clock =>
        LET name == IF ret'.raised THEN ret'.assignment_name ELSE ret'.args.assignment_name
            org == IF ret'.raised THEN ret'.github_organization ELSE ret'.args.github_organization
            before == {a \in assignments : a.name = name}
            after == {a \in assignments' : a.name = name}
        IN /\ Cardinality(after) = 1
           /\ IF before = {}
              THEN \E a \in after :
                     /\ assignments' = assignments \cup {a}
                     /\ a.github_organization = org
                     /\ a.assignment_type = "individual"
                     /\ a.status = "active"
              ELSE assignments' = assignments]_vars

\* C7: a triple whose identifier is None or "" is counted unlinked (its
\* repo_url in unlinked_repos once), adds exactly one error message, and makes
\* no store lookup or write.
C7_MissingIdentifier ==
    SyncReturned =>
        LET D == ret.args.discovered_repos
        IN /\ Len(ret.trace) = Len(D)
           /\ ret.result.unlinked_count = Len(ret.result.unlinked_repos)
           /\ \A i \in DOMAIN D :
                D[i].student_identifier \in {None, ""} =>
                    /\ ret.trace[i].outcome = "no_identifier"
                    /\ Occurrences(ret.result.unlinked_repos, D[i].repo_url) = 1
                    /\ Cardinality(ErrorMessages(D[i].repo_name)) = 1
                    /\ ret.trace[i].queries = 0
                    /\ ret.trace[i].updates = 0

C7_Witness ==
    /\ SyncReturned
    /\ \E i, j \in DOMAIN ret.args.discovered_repos :
        /\ ret.args.discovered_repos[i].student_identifier = None
        /\ ret.args.discovered_repos[j].student_identifier = ""
    /\ ret.result.unlinked_count = 2

\* C8: a triple whose non-empty identifier matches no student of the given
\* organization is counted unlinked, its repo_url is in unlinked_repos, it adds
\* no error message, and no link is created for it.
C8_UnknownStudentUnlinked ==
    SyncReturned =>
        LET D == ret.args.discovered_repos
        IN \A i \in DOMAIN D :
            (/\ D[i].student_identifier \notin {None, ""}
             /\ ~\E s \in students :
                    /\ s.github_username = D[i].student_identifier
                    /\ s.github_organization = ret.args.github_organization) =>
                /\ ret.trace[i].outcome = "no_student"
                /\ D[i].repo_url \in Range(ret.result.unlinked_repos)
                /\ ErrorMessages(D[i].repo_name) = {}

\* C9: accepted_at is monotonic under reconcile: a link whose accepted_at is
\* set keeps that value through every reconcile call, and a reconcile that
\* updates an existing link leaves its accepted_at set.
C9_AcceptedAtMonotonic ==
    [][SyncCalled' /\ clock' /= clock =>
        /\ \A l \in student_assignments :
             l.accepted_at /= NoTime =>
                \E m \in student_assignments' : m.id = l.id /\ m.accepted_at = l.accepted_at
        /\ ~ret'.raised =>
             \A i \in DOMAIN ret'.trace :
                ret'.trace[i].outcome = "updated" =>
                    \A m \in LinkOf(student_assignments', ret'.trace[i].student_id, ret'.assignment_id) :
                        m.accepted_at /= NoTime]_vars

C9_Witness ==
    /\ SyncReturned
    /\ \E i \in DOMAIN ret.trace :
        /\ ret.trace[i].outcome = "updated"
        /\ \E m \in LinkOf(student_assignments, ret.trace[i].student_id, ret.assignment_id) :
            /\ m.accepted_at /= NoTime
            /\ m.accepted_at < clock
            /\ m.last_synced_at = clock

\* No later triple of the call resolved to the student of triple i.
LastForStudent(i) ==
    \A j \in DOMAIN ret.trace :
        j > i => ret.trace[j].student_id /= ret.trace[i].student_id

CreatedLinkState(i) ==
    \E m \in LinkOf(student_assignments, ret.trace[i].student_id, ret.assignment_id) :
        /\ m.acceptance_status = "accepted"
        /\ m.repository_url = ret.args.discovered_repos[i].repo_url
        /\ m.repository_name = ret.args.discovered_repos[i].repo_name
        /\ m.last_synced_at /= NoTime
        /\ m.accepted_at = NoTime

\* C10 as stated: a link that reconcile creates has, on return,
\* acceptance_status 'accepted', the triple's repository_url and
\* repository_name, last_synced_at set and accepted_at unset.
C10_CreatedLinkOnReturn ==
    SyncReturned =>
        \A i \in DOMAIN ret.trace :
            ret.trace[i].outcome = "created" => CreatedLinkState(i)

\* C10 amended: the same, for a created link whose student no later triple of
\* the same call resolves to.
C10_CreatedLinkNotTouchedAgain ==
    SyncReturned =>
        \A i \in DOMAIN ret.trace :
            (ret.trace[i].outcome = "created" /\ LastForStudent(i)) => CreatedLinkState(i)

C10_Witness ==
    /\ SyncReturned
    /\ \E i \in DOMAIN ret.trace :
        /\ ret.trace[i].outcome = "created"
        /\ LastForStudent(i)
        /\ i < Len(ret.trace)

\* The positions of the triples of the last call that took an unlinked branch
\* (no identifier, or no roster entry), in input order.
Unlinked ==
    SelectSeq([i \in 1..Len(ret.trace) |-> i],
              LAMBDA i : ret.trace[i].outcome \in {"no_identifier", "no_student"})

\* C11: the triples are processed in input order in one pass: unlinked_repos
\* is the urls of the unlinked triples in input order, and the link of a
\* student carries the repository_url and repository_name of the last triple
\* of the call that resolved to that student and was linked.
C11_InputOrder ==
    SyncReturned =>
        LET D == ret.args.discovered_repos
        IN /\ Len(ret.trace) = Len(D)
           /\ ret.result.unlinked_repos = [k \in 1..Len(Unlinked) |-> D[Unlinked[k]].repo_url]
           /\ \A i \in DOMAIN ret.trace :
                (ret.trace[i].outcome \in {"created", "updated"} /\ LastForStudent(i)) =>
                    \E m \in LinkOf(student_assignments, ret.trace[i].student_id, ret.assignment_id) :
                        /\ m.repository_url = D[i].repo_url
                        /\ m.repository_name = D[i].repo_name

C11_Witness ==
    /\ SyncReturned
    /\ Len(ret.trace) = 2
    /\ ret.trace[1].outcome = "no_student"
    /\ ret.trace[2].outcome = "no_identifier"
    /\ Len(ret.result.unlinked_repos) = 2

\* No two rows of S have the same organization and the same email after
\* lowercasing and trimming.
UniqueEmailOrg(S) ==
    \A s1, s2 \in S :
        (/\ lower_strip(s1.email) = lower_strip(s2.email)
         /\ s1.github_organization = s2.github_organization) => s1 = s2

\* C12: after every add_student, update_student and delete_student no two
\* stored students share (email, organization), emails compared after
\* lowercasing and trimming; an add_student that raises leaves the store
\* unchanged and raises only for a pair that is stored, and one that returns
\* adds one row with a new id whose pair no stored student had.
C12_UniqueEmailOrg ==
    [][/\ UniqueEmailOrg(students')
       /\ (ret'.op = "add_student" /\ clock' /= clock) =>
            IF ret'.raised
            THEN /\ UNCHANGED <<students, assignments, student_assignments>>
                 /\ \E s \in students :
                        /\ lower_strip(s.email) = lower_strip(ret'.email)
                        /\ s.github_organization = ret'.github_organization
            ELSE \E r \in students' :
                    /\ r \notin students
                    /\ students' = students \cup {r}
                    /\ \A s \in students :
                        /\ s.id /= r.id
                        /\ ~(/\ lower_strip(s.email) = lower_strip(r.email)
                             /\ s.github_organization = r.github_organization)]_vars

\* Every link references a stored student and a stored assignment.
ReferencesExist(S, A, L) ==
    \A l \in L : (\E s \in S : s.id = l.student_id) /\ (\E a \in A : a.id = l.assignment_id)

\* C13: delete_student removes the student and exactly the links that
\* reference it, delete_assignment the assignment and exactly the links that
\* reference it; after every manager operation and every reconcile each stored
\* link references a stored student and a stored assignment.
C13_CascadeDelete ==
    [][/\ ReferencesExist(students', assignments', student_assignments')
       /\ (ret'.op = "delete_student" /\ clock' /= clock) =>
            /\ students' = {s \in students : s.id /= ret'.student_id}
            /\ student_assignments' = {l \in student_assignments : l.student_id /= ret'.student_id}
            /\ assignments' = assignments
       /\ (ret'.op = "delete_assignment" /\ clock' /= clock) =>
            /\ assignments' = {a \in assignments : a.id /= ret'.assignment_id}
            /\ student_assignments' = {l \in student_assignments : l.assignment_id /= ret'.assignment_id}
            /\ students' = students]_vars

C13_Witness ==
    /\ ret.op = "delete_student"
    /\ ret.rows_affected = 1
    /\ ret.cascaded >= 1
    /\ students /= {}
    /\ assignments /= {}

\* C14: after every operation there is at most one link per (student id,
\* assignment id); a link_student_to_assignment that raises leaves the links
\* unchanged, and one that returns adds one link for a pair that had none, so
\* a call on a linked pair raises and the existing link keeps its fields.
C14_OneLinkPerPair ==
    [][/\ OneRowPerPair(student_assignments')
       /\ (ret'.op = "link_student_to_assignment" /\ clock' /= clock) =>
            IF ret'.raised
            THEN UNCHANGED <<students, assignments, student_assignments>>
            ELSE /\ LinkOf(student_assignments, ret'.student_id, ret'.assignment_id) = {}
                 /\ \E l \in LinkOf(student_assignments', ret'.student_id, ret'.assignment_id) :
                        /\ l \notin student_assignments
                        /\ student_assignments' = student_assignments \cup {l}]_vars

C14_Witness ==
    /\ ret.op = "link_student_to_assignment"
    /\ ret.raised
    /\ \E l \in LinkOf(student_assignments, ret.student_id, ret.assignment_id) :
        l.acceptance_status = "accepted"

\* C15: assignment names are unique across organizations: after every
\* operation no two assignments share a name; an add_assignment that raises
\* leaves the store unchanged and raises only for a stored name, and one that
\* returns adds one assignment whose name no stored assignment had, whatever
\* the organizations.
C15_UniqueAssignmentName ==
    [][/\ \A a1, a2 \in assignments' : a1.name = a2.name => a1 = a2
       /\ (ret'.op = "add_assignment" /\ clock' /= clock) =>
            IF ret'.raised
            THEN /\ UNCHANGED <<students, assignments, student_assignments>>
                 /\ \E a \in assignments : a.name = ret'.name
            ELSE \E a \in assignments' :
                    /\ a \notin assignments
                    /\ assignments' = assignments \cup {a}
                    /\ \A b \in assignments : b.name /= a.name /\ b.id /= a.id]_vars

C15_Witness ==
    /\ ret.op = "add_assignment"
    /\ ret.raised
    /\ \E a \in assignments :
        /\ a.name = ret.name
        /\ a.github_organization /= ret.github_organization

\* The store (not the logical clock, not the last call).
store == <<students, assignments, student_assignments, seq>>

\* The assignments named name.
Named(A, name) == {a \in A : a.name = name}

\* The students of S linked to an assignment named name.
LinkedTo(S, A, L, name) ==
    {s \in S : \E a \in Named(A, name) : LinkOf(L, s.id, a.id) /= {}}

\* The students of S with status 'active' in the organization.
ActiveIn(S, github_organization) ==
    {s \in S : s.status = "active" /\ s.github_organization = github_organization}

\* C16: detect_unlinked_students returns exactly the active students of the
\* given organization that have no link to the named assignment, returns the
\* empty sequence without error when no assignment has that name, and changes
\* nothing in the store.
C16_UnlinkedStudents ==
    [][(ret'.op = "detect_unlinked_students" /\ clock' /= clock) =>
        /\ store' = store
        /\ ~ret'.raised
        /\ Cardinality(ret'.students) = Cardinality({s.id : s \in ret'.students})
        /\ {s.id : s \in ret'.students} =
             IF Named(assignments, ret'.assignment_name) = {}
             THEN {}
             ELSE {s.id : s \in ActiveIn(students, ret'.github_organization)
                              \ LinkedTo(students, assignments, student_assignments, ret'.assignment_name)}]_vars

\* C17: get_sync_statistics returns all zeros when no assignment has the
\* name; otherwise total_students is the number of active students of the
\* organization, students_with_repos the number of students linked to the
\* assignment, students_without_repos their difference, and acceptance_rate
\* students_with_repos / total_students x 100, or 0.0 when total_students is 0.
C17_SyncStatistics ==
    (ret.op = "get_sync_statistics") =>
        /\ ~ret.raised
        /\ IF Named(assignments, ret.assignment_name) = {}
           THEN ret.stats = Statistics(0, 0, 0, Rate(0, 1))
           ELSE LET total == Cardinality(ActiveIn(students, ret.github_organization))
                    linked == Cardinality(LinkedTo(students, assignments, student_assignments, ret.assignment_name))
                IN /\ ret.stats.total_students = total
                   /\ ret.stats.students_with_repos = linked
                   /\ ret.stats.students_without_repos = total - linked
                   /\ ret.stats.acceptance_rate =
                        IF total = 0 THEN Rate(0, 1) ELSE Rate(linked * 100, total)

\* C18: in every store state get_sync_statistics returns students_with_repos
\* <= total_students, students_without_repos >= 0 and an acceptance_rate
\* between 0 and 100.
C18_StatisticsArePercentages ==
    (ret.op = "get_sync_statistics" /\ ~ret.raised) =>
        /\ ret.stats.students_with_repos <= ret.stats.total_students
        /\ ret.stats.students_without_repos >= 0
        /\ ret.stats.acceptance_rate.num >= 0
        /\ ret.stats.acceptance_rate.num <= 100 * ret.stats.acceptance_rate.den

\* The positions of the triples of discovered_repos that have no identifier
\* or whose identifier no student of the organization has, in input order.
Unmatched(S, github_organization, discovered_repos) ==
    SelectSeq([i \in 1..Len(discovered_repos) |-> i],
              LAMBDA i :
                \/ discovered_repos[i].student_identifier \in {None, ""}
                \/ ~\E s \in S :
                      /\ s.github_username = discovered_repos[i].student_identifier
                      /\ s.github_organization = github_organization)

\* C19: detect_unlinked_repositories returns, in input order, (repo_name,
\* "unknown") for every triple with a null or empty identifier and (repo_name,
\* identifier) for every triple whose identifier matches no student of the
\* organization, and nothing else; the result depends on the discovered list
\* and the students only, and the store is left unchanged.
C19_UnlinkedRepositories ==
    [][(ret'.op = "detect_unlinked_repositories" /\ clock' /= clock) =>
        LET D == ret'.discovered_repos
            u == Unmatched(students, ret'.github_organization, D)
        IN /\ store' = store
           /\ ~ret'.raised
           /\ ret'.unlinked_repos =
                [k \in 1..Len(u) |->
                    <<D[u[k]].repo_name,
                      IF D[u[k]].student_identifier \in {None, ""}
                      THEN "unknown" ELSE D[u[k]].student_identifier>>]]_vars


\* --- C20
\* The step imports the rows that the previous call imported.
ImportedAgain ==
    /\ ret.op = "import_from_csv"
    /\ ret'.op = "import_from_csv"
    /\ ret'.rows = ret.rows

\* Row i has an email and a name.
Complete(row) == strip(row.email) /= "" /\ row.name /= ""

\* Row i is complete and a student with its email is in the organization.
Present(S, row, github_organization) ==
    Complete(row) /\ get_student_by_email(S, strip(row.email), github_organization) /= {}

\* Importing the same rows again into the same organization leaves the
\* students as they were and imports nothing; every row already there is
\* skipped with skip_duplicates, and fails as a duplicate without it.
SecondImportSameOrganization ==
    ImportedAgain /\ ret'.github_organization = ret.github_organization
    => /\ students' = students
       /\ ret'.result.successful = 0
       /\ \A i \in 1..Len(ret'.rows) :
            Present(students, ret'.rows[i], ret'.github_organization)
            => IF ret'.skip_duplicates
               THEN ret'.outcomes[i] = "skipped"
               ELSE /\ ret'.outcomes[i] = "duplicate"
                    /\ <<"Duplicate student", i + 1>> \in Range(ret'.result.errors)
       /\ ret'.result.skipped = Cardinality({i \in 1..Len(ret'.outcomes) : ret'.outcomes[i] = "skipped"})
       /\ ret'.result.failed = Len(ret'.result.errors)

\* C20 (as stated): importing the same rows a second time into the same
\* organization adds no student and changes none, with every present row
\* skipped (skip_duplicates) or failed as a duplicate (otherwise), and
\* importing them into a different organization succeeds for every row.
C20_ImportIdempotent ==
    [][/\ SecondImportSameOrganization
       /\ ImportedAgain /\ ret'.github_organization /= ret.github_organization
          => /\ ret'.result.successful = Len(ret'.rows)
             /\ \A i \in 1..Len(ret'.rows) : ret'.outcomes[i] = "imported"]_vars

\* C20 (amended): the same, but in a different organization a row succeeds
\* when it has an email and a name, the organization is not the empty string
\* and does not hold the row's email yet, neither from before the import nor
\* from an earlier row of the file.
C20_ImportIdempotentForNewRows ==
    [][/\ SecondImportSameOrganization
       /\ ImportedAgain /\ ret'.github_organization /= ret.github_organization
          => \A i \in 1..Len(ret'.rows) :
               (/\ Complete(ret'.rows[i])
                /\ Truthy(ret'.github_organization)
                /\ ~Present(students, ret'.rows[i], ret'.github_organization)
                /\ \A j \in 1..(i - 1) :
                     ~(/\ Complete(ret'.rows[j])
                       /\ lower_strip(ret'.rows[j].email) = lower_strip(ret'.rows[i].email)))
               => /\ ret'.outcomes[i] = "imported"
                  /\ \E s \in students' \ students :
                       /\ s.email = lower_strip(ret'.rows[i].email)
                       /\ s.github_organization = ret'.github_organization]_vars

\* The same two rows were imported twice into one organization, the second
\* time skipping both, and then into another one, where both succeeded.
C20_Witness ==
    /\ ret.op = "import_from_csv"
    /\ Len(ret.rows) = MaxRows
    /\ Len(ret.run) = 2
    /\ ret.run[1] = ret.run[2]
    /\ ret.run[2] /= ret.github_organization
    /\ ret.result.successful = MaxRows
    /\ Cardinality(students) = 2 * MaxRows

\* --- C21
\* The file's lines all carry an email and a name, no two the same email,
\* none of them in the organization yet, and the organization is named.
ImportableFile(S, lines, github_organization) ==
    /\ lines /= <<>>
    /\ Truthy(github_organization)
    /\ \A i \in 1..Len(lines) :
         /\ lines[i][1] /= "" /\ lines[i][2] /= ""
         /\ get_student_by_email(S, lines[i][1], github_organization) = {}
         /\ \A j \in 1..Len(lines) : lines[j][1] = lines[i][1] => j = i

\* C21: a file with Google-Forms-style or mixed-case column headers is
\* imported like one with the expected headers: every data row succeeds and
\* none fails.
C21_GoogleFormsHeaders ==
    [][/\ ret'.op = "import_csv_file"
       /\ ret'.fieldnames \in {GoogleFormsHeader, MixedCaseHeader}
       /\ ImportableFile(students, ret'.lines, ret'.github_organization)
       => /\ ret'.result.failed = 0
          /\ ret'.result.successful = Len(ret'.lines)
          /\ \A i \in 1..Len(ret'.lines) :
               \E s \in students' :
                 /\ s.email = ret'.lines[i][1]
                 /\ s.github_username = ret'.lines[i][3]
                 /\ s.github_organization = ret'.github_organization]_vars

\* --- C22
\* C22: every SyncResult that reconcile returns accounts for each triple
\* once: linked_count + unlinked_count = total_repos = the length of the
\* discovered list.
C22_EveryTripleCounted ==
    SyncReturned =>
        /\ ret.result.total_repos = Len(ret.args.discovered_repos)
        /\ ret.result.linked_count + ret.result.unlinked_count = ret.result.total_repos

\* --- C23
\* C23: acceptance_status only moves forward: no reconcile call changes a
\* link whose acceptance_status is completed or submitted back to accepted.
C23_StatusMovesForward ==
    [][SyncCalled' =>
        \A l \in student_assignments :
            l.acceptance_status \in {"completed", "submitted"} =>
                \A m \in LinkOf(student_assignments', l.student_id, l.assignment_id) :
                    m.acceptance_status /= "accepted"]_vars

\* --- C24
\* The link joins a student and an assignment of one organization.
SameOrganization(S, A, l) ==
    \A s \in S, a \in A :
        (s.id = l.student_id /\ a.id = l.assignment_id)
        => s.github_organization = a.github_organization

\* C24: organizations partition the store: every link that a reconcile call
\* creates or updates joins a student and an assignment that belong to the
\* same organization.
C24_LinksWithinOrganization ==
    [][SyncCalled' =>
        \A l \in student_assignments' \ student_assignments :
            SameOrganization(students', assignments', l)]_vars

\* --- C25
\* The identifiers that the triples of the last reconcile call claim.
Claimed == {ret.args.discovered_repos[i].student_identifier : i \in DOMAIN ret.args.discovered_repos}

\* C25: after a reconcile that returns with no error, every active student
\* of the organization whose github identifier a triple claims is linked to
\* the assignment, and detect_unlinked_students does not return that student.
C25_ClaimedStudentsLinked ==
    (SyncReturned /\ ret.result.errors = <<>>) =>
        LET unlinked == detect_unlinked_students(students, assignments, student_assignments,
                            ret.args.assignment_name, ret.args.github_organization)
        IN \A s \in students :
              (/\ s.github_organization = ret.args.github_organization
               /\ s.status = "active"
               /\ Truthy(s.github_username)
               /\ s.github_username \in Claimed)
              => /\ LinkOf(student_assignments, s.id, ret.assignment_id) /= {}
                 /\ ~unlinked.raised => \A u \in unlinked.students : u.id /= s.id

\* --- C26
\* The links that the step created or changed (every write of a reconcile
\* call stamps last_synced_at with the time of the call).
Touched == student_assignments' \ student_assignments

\* The links of the assignment that the call worked on, after the call.
LinkedAfter == {l \in student_assignments' : l.assignment_id = ret'.assignment_id}

\* No two triples of the call were linked to the same student.
OneTriplePerStudent(trace) ==
    \A i, j \in DOMAIN trace :
        (/\ trace[i].outcome \in {"created", "updated"}
         /\ trace[j].outcome \in {"created", "updated"}
         /\ trace[i].student_id = trace[j].student_id) => i = j

\* C26 (as stated): linked_count is the number of distinct (student,
\* assignment) links the call created or updated, and so is at most the
\* number of students linked to the assignment after the call.
C26_LinkedCountIsLinks ==
    [][SyncReturned' =>
        /\ ret'.result.linked_count = Cardinality(Touched)
        /\ ret'.result.linked_count <= Cardinality(LinkedAfter)]_vars

\* C26 (amended): linked_count is the number of triples that were linked;
\* when no two of them resolve to the same student it is the number of
\* distinct links the call created or updated, and at most the number of
\* students linked to the assignment after the call.
C26_LinkedCountIsLinkedTriples ==
    [][SyncReturned' =>
        /\ ret'.result.linked_count =
             Cardinality({i \in DOMAIN ret'.trace : ret'.trace[i].outcome \in {"created", "updated"}})
        /\ OneTriplePerStudent(ret'.trace) =>
             /\ ret'.result.linked_count = Cardinality(Touched)
             /\ Touched \subseteq LinkedAfter
             /\ ret'.result.linked_count <= Cardinality(LinkedAfter)]_vars

\* A call with two triples linked two different students, one by creating
\* a link and one by updating it.
C26_Witness ==
    /\ SyncReturned
    /\ ret.result.linked_count = 2
    /\ OneTriplePerStudent(ret.trace)
    /\ \E i, j \in DOMAIN ret.trace :
         ret.trace[i].outcome = "created" /\ ret.trace[j].outcome = "updated"

\* --- C27
\* C27: where the named assignment exists, students_without_repos of
\* get_sync_statistics is the number of students that
\* detect_unlinked_students returns for the same arguments.
C27_ReportsAgree ==
    (/\ ret.op = "get_sync_statistics"
     /\ ~ret.raised
     /\ Named(assignments, ret.assignment_name) /= {}) =>
        LET unlinked == detect_unlinked_students(students, assignments, student_assignments,
                            ret.assignment_name, ret.github_organization)
        IN /\ ~unlinked.raised
           /\ ret.stats.students_without_repos = Cardinality(unlinked.students)

\* --- C28
\* The identifiers that the triples of a discovered list claim.
ClaimedBy(discovered_repos) ==
    {discovered_repos[i].student_identifier : i \in DOMAIN discovered_repos}

\* The link rows are one link: same id, student and assignment.
SameLink(l, m) ==
    l.id = m.id /\ l.student_id = m.student_id /\ l.assignment_id = m.assignment_id

\* Frame of a reconcile call that returned, with arguments name and D.
ReconcileFrame(name, discovered_repos) ==
    /\ students' = students
    /\ assignments \subseteq assignments'
    /\ Cardinality(assignments' \ assignments) <= 1
    /\ \A a \in assignments' \ assignments : a.name = name
    /\ \A l \in student_assignments : \E m \in student_assignments' : SameLink(l, m)
    /\ \A l \in student_assignments :
         (\A a \in Named(assignments', name) : l.assignment_id /= a.id)
         => l \in student_assignments'
    /\ \A m \in student_assignments' \ student_assignments :
         /\ \E a \in Named(assignments', name) : m.assignment_id = a.id
         /\ \E s \in students :
              /\ s.id = m.student_id
              /\ Truthy(s.github_username)
              /\ s.github_username \in ClaimedBy(discovered_repos)

C29_InitializedMeansSchema ==
    (ret.op = "RosterService.initialize_database" /\ ret.returned) => db_file = "schema"

\* --- C30
\* C30: while two sync_repositories calls for the same assignment name and
\* organization interleave round trip by round trip, the store never holds
\* two links of one (student, assignment) pair nor two assignments of one
\* name.
C30_NoDuplicatesWhenInterleaved ==
    /\ OneRowPerPair(student_assignments)
    /\ \A a1, a2 \in assignments : a1.name = a2.name => a1 = a2

\* Both callers found no link for the student: one of them inserted it and
\* linked the student, the other ran into the IntegrityError of the INSERT
\* and returned with the error and nothing linked.
C30_Witness ==
    /\ \A p \in Callers : calls[p].pc \in {"returned", "raised"}
    /\ \E p, q \in Callers :
         /\ calls[p].pc = "returned"
         /\ calls[p].result.linked_count >= 1
         /\ calls[q].pc = "returned"
         /\ \E k \in DOMAIN calls[q].result.errors :
              calls[q].result.errors[k][1] = "Error processing"
         /\ calls[q].result.linked_count = 0
    /\ student_assignments /= {}

====
